---- MODULE Spec2Model ----
(***************************************************************************)
(* One forward call through the module tree of                             *)
(*   src/models/layers/attentions/attention.py  (AttentionBlock,           *)
(*                                               SelfAttentionBlock)       *)
(*   src/models/vit.py                          (EncoderBlock, Encoder,    *)
(*                                               ViT)                      *)
(* Each action is one statement group of a __call__ body.  Tensors are     *)
(* nested functions of fixed-point numbers (One stands for 1.0).  An       *)
(* uncaught Python exception ends the whole call: no __call__ in the two   *)
(* files catches anything.                                                 *)
(***************************************************************************)
EXTENDS Integers, Sequences, FiniteSets, TLC

(* ---------------------------------------------------------------- bounds *)
MaxBatch == 2
MaxLen == 2
MaxLayers == 2
\* fixed-point unit: the integer that stands for 1.0
One == 8

(* ------------------------------------------------------ families of inputs *)
HeadCounts == {1, 2}
ChannelCounts == {2, 3}
\* (attn dropout rate, dropout rate) pairs given to the composite modules,
\* in percent
RatePairs == {<<0, 0>>, <<50, 50>>, <<0, 100>>}
\* (kernel_init, bias_init) pairs given to the composite modules
InitPairs == {<<"kaiming_uniform", "zeros">>, <<"normal", "ones">>}
\* (rank of inputs_q, rank of inputs_kv) of a direct AttentionBlock call
RankPairs == {<<3, 3>>, <<2, 3>>, <<3, 4>>, <<4, 4>>}
\* seed 0: every parameter holds the value its initializer gave it;
\* another seed: trained values
ParamSeeds == {0, 1}
\* keys of the caller's dropout random stream
RngKeys == {0, 1}

(* -------------------------------------------------------------- arithmetic *)
RECURSIVE SumSeq(_)
SumSeq(s) ==
    IF s = <<>> THEN 0 ELSE Head(s) + SumSeq(Tail(s))

\* fixed-point product and quotient
Mul(a, b) ==
    (a * b) \div One

Div(a, b) ==
    (a * One) \div b

\* integer square root (floor)
ISqrt(n) ==
    CHOOSE r \in 0..n : r * r <= n /\ (r + 1) * (r + 1) > n

\* fixed-point value of sqrt(n) for an integer n
SqrtFP(n) ==
    ISqrt(n * One * One)

\* e^t for a fixed-point t <= 0, by 1 / (1 + s + s^2/2) with s = -t
ExpNeg(t) ==
    LET s == 0 - t
    IN  (2 * One * One * One) \div (2 * One * One + 2 * One * s + s * s)

Max(S) ==
    CHOOSE m \in S : \A x \in S : x <= m

(* ----------------------------------------------------------------- tensors *)
\* Optional[int]: <<>> is None, <<n>> is n.  Python's `a or b` takes b when a
\* is None or 0.
None == <<>>

Some(n) ==
    <<n>>

OrElse(opt, dflt) ==
    IF opt = None \/ opt[1] = 0 THEN dflt ELSE opt[1]

NoTensor == [shape |-> <<>>, data |-> <<>>]

\* a tensor of a given shape whose entries come from a seed
RECURSIVE Fill(_, _)
Fill(shape, seed) ==
    IF shape = <<>>
    THEN ((seed % 3) - 1) * One
    ELSE [i \in 1..Head(shape) |-> Fill(Tail(shape), seed * 2 + i)]

SeededTensor(shape, seed) ==
    [shape |-> shape, data |-> Fill(shape, seed)]

Rank(t) ==
    Len(t.shape)

ShapeOfRank(r, b, l, c) ==
    CASE r = 2 -> <<l, c>>
      [] r = 3 -> <<b, l, c>>
      [] r = 4 -> <<b, 1, l, c>>

(* ------------------------------------------------------ learned parameters *)
NameCode(name) ==
    CASE name = "queries" -> 1
      [] name = "keys" -> 2
      [] name = "values" -> 3
      [] name = "pre_softmax" -> 4
      [] name = "post_softmax" -> 5
      [] name = "cls" -> 6
      [] name = "pos_embed" -> 7
      [] name = "patch_kernel" -> 8
      [] name = "head_kernel" -> 9
      [] name = "head_bias" -> 10
      [] OTHER -> 11

RECURSIVE Const(_, _)
Const(shape, v) ==
    IF shape = <<>> THEN v
    ELSE [i \in 1..Head(shape) |-> Const(Tail(shape), v)]

\* the value a parameter holds: what its initializer gave it (seed 0) or a
\* trained value (any other seed)
Param(name, init, shape, seed) ==
    IF seed = 0 /\ init = "zeros" THEN Const(shape, 0)
    ELSE IF seed = 0 /\ init = "ones" THEN Const(shape, One)
    ELSE Fill(shape, NameCode(name) + seed)

Identity(n) ==
    [i \in 1..n |-> [j \in 1..n |-> IF i = j THEN One ELSE 0]]

\* the values a (num_heads, num_heads) head-mixing parameter may hold
Mixers(name, init, n, seed) ==
    {Identity(n), Param(name, init, <<n, n>>, seed)}

(* ------------------------------------------------- flax library operations *)
\* nn.Dropout(rate)(x, deterministic): x itself when rate = 0 or
\* deterministic, zeros when rate = 1, else the kept entries scaled by
\* 1 / (1 - rate) and the others 0; the mask comes from the caller's key
RECURSIVE DropData(_, _, _, _)
DropData(d, r, rate, k) ==
    IF r = 0
    THEN (IF rate = 100 THEN 0
          ELSE IF k % 2 = 0 THEN (d * 100) \div (100 - rate) ELSE 0)
    ELSE [i \in DOMAIN d |-> DropData(d[i], r - 1, rate, k * 3 + i)]

DropoutActive(rate, deterministic) ==
    ~(rate = 0 \/ deterministic)

Dropout(x, rate, deterministic, key) ==
    IF DropoutActive(rate, deterministic)
    THEN [shape |-> x.shape, data |-> DropData(x.data, Rank(x), rate, key)]
    ELSE x

\* nn.LayerNorm over the channel axis of one token (scale 1, bias 0)
NormToken(v) ==
    LET c == Len(v)
        s == SumSeq(v)
        u == [i \in 1..c |-> c * v[i] - s]
        q == SumSeq([i \in 1..c |-> u[i] * u[i]])
    IN  [i \in 1..c |->
            IF q = 0 THEN 0 ELSE (u[i] * SqrtFP(c)) \div ISqrt(q)]

LayerNorm(x) ==
    [shape |-> x.shape,
     data |-> [b \in 1..x.shape[1] |-> [l \in 1..x.shape[2] |->
                  NormToken(x.data[b][l])]]]

\* nn.DenseGeneral(features=(h, d), axis=-1) on a (B, L, C) tensor
DenseHeads(x, kernel, bias, h, d) ==
    [shape |-> <<x.shape[1], x.shape[2], h, d>>,
     data |-> [b \in 1..x.shape[1] |-> [l \in 1..x.shape[2] |->
                [i \in 1..h |-> [j \in 1..d |->
                   SumSeq([c \in 1..x.shape[3] |->
                             Mul(x.data[b][l][c], kernel[c][i][j])])
                   + bias[i][j]]]]]]

\* nn.Dense(features=n) on a (B, C) tensor
Dense(x, kernel, bias, n) ==
    [shape |-> <<x.shape[1], n>>,
     data |-> [b \in 1..x.shape[1] |-> [j \in 1..n |->
                SumSeq([c \in 1..x.shape[2] |->
                          Mul(x.data[b][c], kernel[c][j])]) + bias[j]]]]

\* nn.softmax over the last axis of a (B, H, Lq, Lk) tensor
SoftmaxRow(row) ==
    LET m == Max({row[k] : k \in DOMAIN row})
        e == [k \in DOMAIN row |-> ExpNeg(row[k] - m)]
        z == SumSeq(e)
    IN  [k \in DOMAIN row |-> Div(e[k], z)]

Softmax(w) ==
    [shape |-> w.shape,
     data |-> [b \in 1..w.shape[1] |-> [h \in 1..w.shape[2] |->
                [q \in 1..w.shape[3] |-> SoftmaxRow(w.data[b][h][q])]]]]

(* ------------------------------------- collaborators (models.layers, absent) *)
\* AddAbsPosEmbed()(x): x plus a learned (L, C) positional signal
AddAbsPosEmbed(x, seed) ==
    LET pos == Param("pos_embed", "normal", <<x.shape[2], x.shape[3]>>, seed)
    IN  [shape |-> x.shape,
         data |-> [b \in 1..x.shape[1] |-> [l \in 1..x.shape[2] |->
                    [c \in 1..x.shape[3] |-> x.data[b][l][c] + pos[l][c]]]]]

\* PatchEmbedBlock(patch_shape, embed_dim)(image): image is (B, H, W, 1);
\* one token per patch, in row-major patch order
PatchEmbedBlock(image, patch_shape, embed_dim, kernel_init, seed) ==
    LET gw == image.shape[3] \div patch_shape[2]
        gh == image.shape[2] \div patch_shape[1]
        k == Param("patch_kernel", kernel_init, <<embed_dim>>, seed)
        pix(b, p) ==
            SumSeq([n \in 1..(patch_shape[1] * patch_shape[2]) |->
                image.data[b][((p - 1) \div gw) * patch_shape[1]
                                 + ((n - 1) \div patch_shape[2]) + 1]
                             [((p - 1) % gw) * patch_shape[2]
                                 + ((n - 1) % patch_shape[2]) + 1][1]])
    IN  [shape |-> <<image.shape[1], gh * gw, embed_dim>>,
         data |-> [b \in 1..image.shape[1] |-> [p \in 1..(gh * gw) |->
                    [c \in 1..embed_dim |-> Mul(pix(b, p), k[c])]]]]

(* ------------------------------------------------------------ module fields *)
NoModule == [class |-> "None"]

\* the fields a flax Module instance declares; reading any other attribute
\* of the instance raises AttributeError
HasAttr(m, name) ==
    name \in DOMAIN m

\* SelfAttentionBlock.__call__: every field is forwarded
AttentionBlockOf(s) ==
    [class |-> "AttentionBlock",
     num_heads |-> s.num_heads,
     head_ch |-> s.head_ch,
     out_ch |-> s.out_ch,
     talking_heads |-> s.talking_heads,
     attn_drop_rate |-> s.attn_drop_rate,
     out_drop_rate |-> s.out_drop_rate,
     use_bias |-> s.use_bias,
     dtype |-> s.dtype,
     precision |-> s.precision,
     kernel_init |-> s.kernel_init,
     bias_init |-> s.bias_init]

\* EncoderBlock.__call__: the fields not passed keep the class defaults
SelfAttentionBlockOf(b) ==
    [class |-> "SelfAttentionBlock",
     num_heads |-> b.num_heads,
     head_ch |-> None,
     out_ch |-> None,
     talking_heads |-> FALSE,
     attn_drop_rate |-> b.attn_dropout_rate,
     out_drop_rate |-> b.dropout_rate,
     use_bias |-> FALSE,
     dtype |-> b.dtype,
     precision |-> b.precision,
     kernel_init |-> b.kernel_init,
     bias_init |-> "zeros"]

\* EncoderBlock.__call__: the feed-forward sublayer it would build
FFBlockOf(b) ==
    [class |-> "FFBlock",
     expand_ratio |-> b.expand_ratio,
     dropout_rate |-> b.dropout_rate,
     activation_fn |-> b.activation_fn,
     dtype |-> b.dtype,
     precision |-> b.precision,
     kernel_init |-> b.kernel_init,
     bias_init |-> b.bias_init]

\* a slip: Encoder passing its bias_init on to its blocks
EncoderBlockForwardingBias(e) ==
    [class |-> "EncoderBlock",
     num_heads |-> e.num_heads,
     expand_ratio |-> e.expand_ratio,
     attn_dropout_rate |-> e.attn_dropout_rate,
     dropout_rate |-> e.dropout_rate,
     activation_fn |-> e.activation_fn,
     dtype |-> e.dtype,
     precision |-> e.precision,
     kernel_init |-> e.kernel_init,
     bias_init |-> e.bias_init]

\* Encoder.__call__: bias_init is not passed
EncoderBlockOf(e) ==
    [class |-> "EncoderBlock",
     num_heads |-> e.num_heads,
     expand_ratio |-> e.expand_ratio,
     attn_dropout_rate |-> e.attn_dropout_rate,
     dropout_rate |-> e.dropout_rate,
     activation_fn |-> e.activation_fn,
     dtype |-> e.dtype,
     precision |-> e.precision,
     kernel_init |-> e.kernel_init,
     bias_init |-> "zeros"]

\* ViT.__call__
EncoderOf(v) ==
    [class |-> "Encoder",
     num_layers |-> v.num_layers,
     num_heads |-> v.num_heads,
     expand_ratio |-> v.expand_ratio,
     attn_dropout_rate |-> v.attn_dropout_rate,
     dropout_rate |-> v.dropout_rate,
     activation_fn |-> v.activation_fn,
     dtype |-> v.dtype,
     precision |-> v.precision,
     kernel_init |-> v.kernel_init,
     bias_init |-> v.bias_init]

\* ViT.__call__: the classification head
HeadOf(v) ==
    [class |-> "Dense",
     features |-> v.num_classes,
     use_bias |-> TRUE,
     dtype |-> v.dtype,
     kernel_init |-> "zeros",
     bias_init |-> v.bias_init]

(* -------------------------------------------------------------------- state *)
VARIABLES
    entry,          \* the module whose __call__ the caller invoked
    pc,             \* the statement about to run
    status,         \* "running", "returned", or the exception that ended the call
    raised_by,      \* the module whose statement raised
    is_training,    \* the flag given to the call
    pseed,          \* which values the parameters hold
    vit, enc, blk, sa, attn, head,      \* module instances built so far
    image, patches, cls_token, seq,     \* ViT locals
    enc_x, layer,                       \* Encoder locals
    blk_in, blk_x,                      \* EncoderBlock locals
    inputs_q, inputs_kv, head_ch, out_ch,
    query, key, value, attn_weights,    \* AttentionBlock locals
    pre_softmax, post_softmax,          \* talking-heads parameters read
    h_scores, h_soft,   \* attn_weights as line 47 and line 59 left it
    head_in,            \* the rows given to the classification head
    params,             \* parameters created or read, as <<module, name>>
    trace,              \* tensor operations done, as <<module, operation>>
    drops,              \* dropout sites run, as [site, rate, deterministic]
    output

vars ==
    <<entry, pc, status, raised_by, is_training, pseed, vit, enc, blk, sa,
      attn, head, image, patches, cls_token, seq, enc_x, layer, blk_in,
      blk_x, inputs_q, inputs_kv, head_ch, out_ch, query, key, value,
      attn_weights, pre_softmax, post_softmax, h_scores, h_soft, head_in,
      params, trace, drops, output>>

\* everything a fresh call has not touched yet
Blank ==
    /\ status = "running"
    /\ raised_by = "None"
    /\ patches = NoTensor /\ cls_token = NoTensor /\ seq = NoTensor
    /\ layer = 0
    /\ blk_x = NoTensor
    /\ head_ch = 0 /\ out_ch = 0
    /\ query = NoTensor /\ key = NoTensor /\ value = NoTensor
    /\ attn_weights = NoTensor
    /\ pre_softmax = <<>> /\ post_softmax = <<>>
    /\ h_scores = NoTensor /\ h_soft = NoTensor
    /\ head_in = NoTensor
    /\ params = {} /\ trace = <<>> /\ drops = <<>>
    /\ output = NoTensor
    /\ head = NoModule

InitViT ==
    /\ entry = "ViT" /\ pc = "ViT:assert"
    /\ \E h \in HeadCounts, c \in ChannelCounts, n \in 0..MaxLayers,
          r \in RatePairs, i \in InitPairs :
          vit = [class |-> "ViT",
                 num_classes |-> 2,
                 num_layers |-> n,
                 num_heads |-> h,
                 embed_dim |-> c,
                 patch_shape |-> <<1, 1>>,
                 expand_ratio |-> 4,
                 dropout_rate |-> r[2],
                 attn_dropout_rate |-> r[1],
                 activation_fn |-> "gelu",
                 dtype |-> "float32",
                 precision |-> "DEFAULT",
                 kernel_init |-> i[1],
                 bias_init |-> i[2]]
    /\ \E b \in 1..MaxBatch, w \in 1..MaxLen :
          image = SeededTensor(<<b, 1, w, 1>>, 1)
    /\ enc = NoModule /\ blk = NoModule /\ sa = NoModule /\ attn = NoModule
    /\ enc_x = NoTensor /\ blk_in = NoTensor
    /\ inputs_q = NoTensor /\ inputs_kv = NoTensor

InitEncoder ==
    /\ entry = "Encoder" /\ pc = "Enc:pos"
    /\ \E h \in HeadCounts, n \in 0..MaxLayers, r \in RatePairs,
          i \in InitPairs :
          enc = [class |-> "Encoder",
                 num_layers |-> n,
                 num_heads |-> h,
                 expand_ratio |-> 4,
                 attn_dropout_rate |-> r[1],
                 dropout_rate |-> r[2],
                 activation_fn |-> "gelu",
                 dtype |-> "float32",
                 precision |-> "DEFAULT",
                 kernel_init |-> i[1],
                 bias_init |-> i[2]]
    /\ \E b \in 1..MaxBatch, l \in 1..MaxLen, c \in ChannelCounts :
          enc_x = SeededTensor(<<b, l, c>>, 1)
    /\ vit = NoModule /\ blk = NoModule /\ sa = NoModule /\ attn = NoModule
    /\ image = NoTensor /\ blk_in = NoTensor
    /\ inputs_q = NoTensor /\ inputs_kv = NoTensor

InitEncoderBlock ==
    /\ entry = "EncoderBlock" /\ pc = "Blk:norm1"
    /\ \E h \in HeadCounts, r \in RatePairs, i \in InitPairs :
          blk = [class |-> "EncoderBlock",
                 num_heads |-> h,
                 expand_ratio |-> 4,
                 attn_dropout_rate |-> r[1],
                 dropout_rate |-> r[2],
                 activation_fn |-> "gelu",
                 dtype |-> "float32",
                 precision |-> "DEFAULT",
                 kernel_init |-> i[1],
                 bias_init |-> i[2]]
    /\ \E b \in 1..MaxBatch, l \in 1..MaxLen, c \in ChannelCounts :
          blk_in = SeededTensor(<<b, l, c>>, 1)
    /\ vit = NoModule /\ enc = NoModule /\ sa = NoModule /\ attn = NoModule
    /\ image = NoTensor /\ enc_x = NoTensor
    /\ inputs_q = NoTensor /\ inputs_kv = NoTensor

InitSelfAttentionBlock ==
    /\ entry = "SelfAttentionBlock" /\ pc = "SA:call"
    /\ \E h \in HeadCounts, hc \in {None, Some(1)}, oc \in {None, Some(3)},
          th \in BOOLEAN, ub \in BOOLEAN, r \in {<<0, 0>>, <<50, 50>>},
          i \in InitPairs :
          sa = [class |-> "SelfAttentionBlock",
                num_heads |-> h,
                head_ch |-> hc,
                out_ch |-> oc,
                talking_heads |-> th,
                attn_drop_rate |-> r[1],
                out_drop_rate |-> r[2],
                use_bias |-> ub,
                dtype |-> "float32",
                precision |-> "DEFAULT",
                kernel_init |-> i[1],
                bias_init |-> i[2]]
    /\ \E b \in 1..MaxBatch, l \in 1..MaxLen, c \in ChannelCounts :
          inputs_q = SeededTensor(<<b, l, c>>, 1)
    /\ inputs_kv = NoTensor
    /\ vit = NoModule /\ enc = NoModule /\ blk = NoModule /\ attn = NoModule
    /\ image = NoTensor /\ enc_x = NoTensor /\ blk_in = NoTensor

InitAttentionBlock ==
    /\ entry = "AttentionBlock" /\ pc = "Attn:assert"
    /\ \E h \in HeadCounts, th \in BOOLEAN, r \in {<<0, 0>>, <<50, 50>>} :
          attn = [class |-> "AttentionBlock",
                  num_heads |-> h,
                  head_ch |-> None,
                  out_ch |-> None,
                  talking_heads |-> th,
                  attn_drop_rate |-> r[1],
                  out_drop_rate |-> r[2],
                  use_bias |-> FALSE,
                  dtype |-> "float32",
                  precision |-> "DEFAULT",
                  kernel_init |-> "kaiming_uniform",
                  bias_init |-> "zeros"]
    /\ \E rk \in RankPairs, b \in 1..MaxBatch, lq \in 1..MaxLen,
          lk \in 1..MaxLen, cq \in ChannelCounts, ckv \in ChannelCounts :
          /\ inputs_q = SeededTensor(ShapeOfRank(rk[1], b, lq, cq), 1)
          /\ inputs_kv = SeededTensor(ShapeOfRank(rk[2], b, lk, ckv), 2)
    /\ vit = NoModule /\ enc = NoModule /\ blk = NoModule /\ sa = NoModule
    /\ image = NoTensor /\ enc_x = NoTensor /\ blk_in = NoTensor

Init ==
    /\ is_training \in BOOLEAN
    /\ pseed \in ParamSeeds
    /\ Blank
    /\ \/ InitViT
       \/ InitEncoder
       \/ InitEncoderBlock
       \/ InitSelfAttentionBlock
       \/ InitAttentionBlock

(* ---------------------------------------------------- tensor expressions *)
\* inputs.shape[-1]
LastDim(t) ==
    t.shape[Len(t.shape)]

\* jnp.tile(cls_token, [b, 1, 1]) of a (1, 1, C) tensor
Tile(t, b) ==
    [shape |-> <<b, 1, t.shape[3]>>,
     data |-> [i \in 1..b |-> t.data[1]]]

\* a slip: the class token appended after the patch tokens
ConcatenateAppended(a, x) ==
    [shape |-> <<x.shape[1], a.shape[2] + x.shape[2], x.shape[3]>>,
     data |-> [b \in 1..x.shape[1] |-> x.data[b] \o a.data[b]]]

\* jnp.concatenate([a, x], axis=1) of two rank-3 tensors
Concatenate(a, x) ==
    [shape |-> <<x.shape[1], a.shape[2] + x.shape[2], x.shape[3]>>,
     data |-> [b \in 1..x.shape[1] |-> a.data[b] \o x.data[b]]]

\* x[:, 0]
FirstRow(x) ==
    [shape |-> <<x.shape[1], x.shape[3]>>,
     data |-> [b \in 1..x.shape[1] |-> x.data[b][1]]]

\* query / jnp.sqrt(head_ch)
ScaleQuery(q, d) ==
    [shape |-> q.shape,
     data |-> [b \in 1..q.shape[1] |-> [l \in 1..q.shape[2] |->
                [h \in 1..q.shape[3] |-> [j \in 1..q.shape[4] |->
                   Div(q.data[b][l][h][j], SqrtFP(d))]]]]]

\* jnp.einsum('... q h d, ... k h d -> ... h q k', query, key)
EinsumScores(q, k) ==
    [shape |-> <<q.shape[1], q.shape[3], q.shape[2], k.shape[2]>>,
     data |-> [b \in 1..q.shape[1] |-> [h \in 1..q.shape[3] |->
                [i \in 1..q.shape[2] |-> [j \in 1..k.shape[2] |->
                   SumSeq([d \in 1..q.shape[4] |->
                             Mul(q.data[b][i][h][d], k.data[b][j][h][d])])]]]]]

\* jnp.einsum('... h q k, h i -> ... i q k', attn_weights, pre_softmax_transform)
EinsumPreMix(w, m) ==
    [shape |-> w.shape,
     data |-> [b \in 1..w.shape[1] |-> [i \in 1..w.shape[2] |->
                [q \in 1..w.shape[3] |-> [k \in 1..w.shape[4] |->
                   SumSeq([h \in 1..w.shape[2] |->
                             Mul(w.data[b][h][q][k], m[h][i])])]]]]]

\* a slip: the matrix indexed the other way round ('... i q k, h i -> ... h q k')
EinsumPostMixTransposed(w, m) ==
    [shape |-> w.shape,
     data |-> [b \in 1..w.shape[1] |-> [h \in 1..w.shape[2] |->
                [q \in 1..w.shape[3] |-> [k \in 1..w.shape[4] |->
                   SumSeq([i \in 1..w.shape[2] |->
                             Mul(w.data[b][i][q][k], m[h][i])])]]]]]

\* jnp.einsum('... i q k, i h -> ... h q k', attn_weights, post_softmax_transform)
EinsumPostMix(w, m) ==
    [shape |-> w.shape,
     data |-> [b \in 1..w.shape[1] |-> [h \in 1..w.shape[2] |->
                [q \in 1..w.shape[3] |-> [k \in 1..w.shape[4] |->
                   SumSeq([i \in 1..w.shape[2] |->
                             Mul(w.data[b][i][q][k], m[i][h])])]]]]]

(* ---------------------------------------------------------- preconditions *)
\* assert self.embed_dim % self.num_heads == 0
ViTPrecondition(v) ==
    v.embed_dim % v.num_heads = 0

\* assert inputs_q.ndim == inputs_kv.ndim == 3
AttnRankOK(q, kv) ==
    Rank(q) = Rank(kv) /\ Rank(kv) = 3

\* a slip: the divisibility assert left out
AttnChannelsUnchecked(q, a) ==
    TRUE

\* assert in_ch % self.num_heads == 0
AttnChannelsOK(q, a) ==
    LastDim(q) % a.num_heads = 0

(* ---------------------------------------------------------------- actions *)
cfgVars == <<vit, enc, blk, sa, attn, head>>
callVars == <<entry, is_training, pseed>>
vitVars == <<image, patches, cls_token, seq, head_in>>
encVars == <<enc_x, layer>>
blkVars == <<blk_in, blk_x>>
attnIn == <<inputs_q, inputs_kv, head_ch, out_ch>>
attnQKV == <<query, key, value>>
attnW == <<attn_weights, pre_softmax, post_softmax, h_scores, h_soft>>
logVars == <<params, trace, drops>>

Running(at) ==
    status = "running" /\ pc = at

\* an exception nobody catches: the call ends where it stands
Raise(module, exception) ==
    /\ status' = exception
    /\ raised_by' = module
    /\ UNCHANGED pc

Goto(at) ==
    /\ pc' = at
    /\ UNCHANGED <<status, raised_by>>

\* ViT.__call__, line 96
ViT_Assert ==
    /\ Running("ViT:assert")
    /\ IF ViTPrecondition(vit) THEN Goto("ViT:patch") ELSE Raise("ViT", "AssertionError")
    /\ UNCHANGED <<cfgVars, callVars, vitVars, encVars, blkVars, attnIn,
                   attnQKV, attnW, logVars, output>>

\* ViT.__call__, lines 98-104
ViT_PatchEmbed ==
    /\ Running("ViT:patch")
    /\ patches' = PatchEmbedBlock(image, vit.patch_shape, vit.embed_dim,
                                  vit.kernel_init, pseed)
    /\ params' = params \cup {<<"PatchEmbedBlock", "kernel">>}
    /\ trace' = Append(trace, <<"ViT", "PatchEmbedBlock">>)
    /\ Goto("ViT:cls")
    /\ UNCHANGED <<cfgVars, callVars, image, cls_token, seq, head_in, encVars,
                   blkVars, attnIn, attnQKV, attnW, drops, output>>

\* ViT.__call__, lines 106-110
ViT_ClsToken ==
    /\ Running("ViT:cls")
    /\ LET b == patches.shape[1]
           cls == [shape |-> <<1, 1, vit.embed_dim>>,
                   data |-> Param("cls", "zeros", <<1, 1, vit.embed_dim>>, pseed)]
       IN  /\ cls_token' = Tile(cls, b)
           /\ seq' = Concatenate(Tile(cls, b), patches)
    /\ params' = params \cup {<<"ViT", "cls">>}
    /\ trace' = trace \o << <<"ViT", "tile">>, <<"ViT", "concatenate">> >>
    /\ Goto("ViT:encoder")
    /\ UNCHANGED <<cfgVars, callVars, image, patches, head_in, encVars,
                   blkVars, attnIn, attnQKV, attnW, drops, output>>

\* ViT.__call__, lines 112-121: build the Encoder and call it on x
ViT_CallEncoder ==
    /\ Running("ViT:encoder")
    /\ enc' = EncoderOf(vit)
    /\ enc_x' = seq
    /\ Goto("Enc:pos")
    /\ UNCHANGED <<vit, blk, sa, attn, head, callVars, vitVars, layer, blkVars,
                   attnIn, attnQKV, attnW, logVars, output>>

\* Encoder.__call__, line 61
Encoder_AddPos ==
    /\ Running("Enc:pos")
    /\ enc_x' = AddAbsPosEmbed(enc_x, pseed)
    /\ params' = params \cup {<<"AddAbsPosEmbed", "pos_embed">>}
    /\ trace' = Append(trace, <<"Encoder", "AddAbsPosEmbed">>)
    /\ Goto("Enc:dropout")
    /\ UNCHANGED <<cfgVars, callVars, vitVars, layer, blkVars, attnIn,
                   attnQKV, attnW, drops, output>>

\* Encoder.__call__, line 62
Encoder_Dropout ==
    /\ Running("Enc:dropout")
    /\ \E k \in RngKeys :
          enc_x' = Dropout(enc_x, enc.dropout_rate, ~is_training, k)
    /\ drops' = Append(drops, [site |-> "Encoder",
                               rate |-> enc.dropout_rate,
                               deterministic |-> ~is_training])
    /\ trace' = Append(trace, <<"Encoder", "Dropout">>)
    /\ Goto("Enc:loop")
    /\ UNCHANGED <<cfgVars, callVars, vitVars, layer, blkVars, attnIn,
                   attnQKV, attnW, params, output>>

\* Encoder.__call__, lines 64-73: one more turn of the loop
Encoder_NextBlock ==
    /\ Running("Enc:loop")
    /\ layer < enc.num_layers
    /\ layer' = layer + 1
    /\ blk' = EncoderBlockOf(enc)
    /\ blk_in' = enc_x
    /\ Goto("Blk:norm1")
    /\ UNCHANGED <<vit, enc, sa, attn, head, callVars, vitVars, enc_x, blk_x,
                   attnIn, attnQKV, attnW, logVars, output>>

\* Encoder.__call__, lines 75-76: the loop is over
Encoder_FinalNorm ==
    /\ Running("Enc:loop")
    /\ layer >= enc.num_layers
    /\ enc_x' = LayerNorm(enc_x)
    /\ params' = params \cup {<<"Encoder", "LayerNorm">>}
    /\ trace' = Append(trace, <<"Encoder", "LayerNorm">>)
    /\ IF entry = "Encoder"
       THEN /\ output' = LayerNorm(enc_x)
            /\ status' = "returned"
            /\ UNCHANGED <<pc, raised_by>>
       ELSE /\ Goto("ViT:head")
            /\ UNCHANGED output
    /\ UNCHANGED <<cfgVars, callVars, vitVars, layer, blkVars, attnIn,
                   attnQKV, attnW, drops>>

\* EncoderBlock.__call__, line 25
Block_Norm1 ==
    /\ Running("Blk:norm1")
    /\ blk_x' = LayerNorm(blk_in)
    /\ params' = params \cup {<<"EncoderBlock", "LayerNorm_0">>}
    /\ trace' = Append(trace, <<"EncoderBlock", "LayerNorm">>)
    /\ Goto("Blk:attn")
    /\ UNCHANGED <<cfgVars, callVars, vitVars, encVars, blk_in, attnIn,
                   attnQKV, attnW, drops, output>>

\* EncoderBlock.__call__, lines 26-32: build the SelfAttentionBlock, call it on x
Block_CallSelfAttention ==
    /\ Running("Blk:attn")
    /\ sa' = SelfAttentionBlockOf(blk)
    /\ inputs_q' = blk_x
    /\ Goto("SA:call")
    /\ UNCHANGED <<vit, enc, blk, attn, head, callVars, vitVars, encVars,
                   blkVars, inputs_kv, head_ch, out_ch, attnQKV, attnW,
                   logVars, output>>

\* SelfAttentionBlock.__call__, lines 106-119
SelfAttention_Call ==
    /\ Running("SA:call")
    /\ attn' = AttentionBlockOf(sa)
    /\ inputs_kv' = inputs_q
    /\ Goto("Attn:assert")
    /\ UNCHANGED <<vit, enc, blk, sa, head, callVars, vitVars, encVars,
                   blkVars, inputs_q, head_ch, out_ch, attnQKV, attnW,
                   logVars, output>>

\* AttentionBlock.__call__, lines 25-30
Attn_Assert ==
    /\ Running("Attn:assert")
    /\ IF AttnRankOK(inputs_q, inputs_kv) /\ AttnChannelsOK(inputs_q, attn)
       THEN /\ head_ch' = OrElse(attn.head_ch,
                                 LastDim(inputs_q) \div attn.num_heads)
            /\ out_ch' = OrElse(attn.out_ch, LastDim(inputs_q))
            /\ Goto("Attn:project")
       ELSE /\ Raise("AttentionBlock", "AssertionError")
            /\ UNCHANGED <<head_ch, out_ch>>
    /\ UNCHANGED <<cfgVars, callVars, vitVars, encVars, blkVars, inputs_q,
                   inputs_kv, attnQKV, attnW, logVars, output>>

\* the DenseGeneral that `dense(name=...)` builds at lines 32-39, applied
Project(name, x) ==
    DenseHeads(x,
               Param(name, attn.kernel_init,
                     <<LastDim(x), attn.num_heads, head_ch>>, pseed),
               IF attn.use_bias
               THEN Param(name, attn.bias_init, <<attn.num_heads, head_ch>>, pseed)
               ELSE Const(<<attn.num_heads, head_ch>>, 0),
               attn.num_heads, head_ch)

\* AttentionBlock.__call__, lines 32-45
Attn_Project ==
    /\ Running("Attn:project")
    /\ query' = ScaleQuery(Project("queries", inputs_q), head_ch)
    /\ key' = Project("keys", inputs_kv)
    /\ value' = Project("values", inputs_kv)
    /\ params' = params \cup {<<"AttentionBlock", "queries">>,
                              <<"AttentionBlock", "keys">>,
                              <<"AttentionBlock", "values">>}
    /\ trace' = trace \o << <<"AttentionBlock", "queries">>,
                            <<"AttentionBlock", "keys">>,
                            <<"AttentionBlock", "values">>,
                            <<"AttentionBlock", "scale">> >>
    /\ Goto("Attn:scores")
    /\ UNCHANGED <<cfgVars, callVars, vitVars, encVars, blkVars, attnIn,
                   attnW, drops, output>>

\* AttentionBlock.__call__, lines 47-50
Attn_Scores ==
    /\ Running("Attn:scores")
    /\ attn_weights' = EinsumScores(query, key)
    /\ h_scores' = EinsumScores(query, key)
    /\ trace' = Append(trace, <<"AttentionBlock", "scores">>)
    /\ Goto("Attn:pre")
    /\ UNCHANGED <<cfgVars, callVars, vitVars, encVars, blkVars, attnIn,
                   attnQKV, pre_softmax, post_softmax, h_soft, params, drops,
                   output>>

\* AttentionBlock.__call__, lines 51-57
Attn_PreMix ==
    /\ Running("Attn:pre")
    /\ IF attn.talking_heads
       THEN /\ \E m \in Mixers("pre_softmax", attn.kernel_init,
                               attn.num_heads, pseed) :
                  /\ pre_softmax' = m
                  /\ attn_weights' = EinsumPreMix(attn_weights, m)
            /\ params' = params \cup {<<"AttentionBlock", "pre_softmax">>}
            /\ trace' = Append(trace, <<"AttentionBlock", "pre_softmax">>)
       ELSE UNCHANGED <<pre_softmax, attn_weights, params, trace>>
    /\ Goto("Attn:softmax")
    /\ UNCHANGED <<cfgVars, callVars, vitVars, encVars, blkVars, attnIn,
                   attnQKV, post_softmax, h_scores, h_soft, drops, output>>

\* AttentionBlock.__call__, line 59
Attn_Softmax ==
    /\ Running("Attn:softmax")
    /\ attn_weights' = Softmax(attn_weights)
    /\ h_soft' = Softmax(attn_weights)
    /\ trace' = Append(trace, <<"AttentionBlock", "softmax">>)
    /\ Goto("Attn:post")
    /\ UNCHANGED <<cfgVars, callVars, vitVars, encVars, blkVars, attnIn,
                   attnQKV, pre_softmax, post_softmax, h_scores, params,
                   drops, output>>

\* AttentionBlock.__call__, lines 61-68
Attn_PostMix ==
    /\ Running("Attn:post")
    /\ IF attn.talking_heads
       THEN /\ \E m \in Mixers("post_softmax", attn.kernel_init,
                               attn.num_heads, pseed) :
                  /\ post_softmax' = m
                  /\ attn_weights' = EinsumPostMix(attn_weights, m)
            /\ params' = params \cup {<<"AttentionBlock", "post_softmax">>}
            /\ trace' = Append(trace, <<"AttentionBlock", "post_softmax">>)
       ELSE UNCHANGED <<post_softmax, attn_weights, params, trace>>
    /\ Goto("Attn:dropout")
    /\ UNCHANGED <<cfgVars, callVars, vitVars, encVars, blkVars, attnIn,
                   attnQKV, pre_softmax, h_scores, h_soft, drops, output>>

\* the attribute lines 70-71 read for the rate of the attention-weights dropout
AttnDropoutRateAttr ==
    "attn_dropout_rate"

\* AttentionBlock.__call__, lines 70-71.  The rate expression is evaluated
\* first; AttentionBlock declares attn_drop_rate (line 15) and no
\* attn_dropout_rate, so the read raises AttributeError and nothing after it
\* in any enclosing __call__ runs.
Attn_Dropout ==
    /\ Running("Attn:dropout")
    /\ IF HasAttr(attn, AttnDropoutRateAttr)
       THEN /\ \E k \in RngKeys :
                  attn_weights' = Dropout(attn_weights,
                                          attn[AttnDropoutRateAttr],
                                          ~is_training, k)
            /\ drops' = Append(drops, [site |-> "attn_weights",
                                       rate |-> attn[AttnDropoutRateAttr],
                                       deterministic |-> ~is_training])
            /\ trace' = Append(trace, <<"AttentionBlock", "Dropout">>)
            /\ Goto("Attn:values")
       ELSE /\ Raise("AttentionBlock", "AttributeError")
            /\ UNCHANGED <<attn_weights, drops, trace>>
    /\ UNCHANGED <<cfgVars, callVars, vitVars, encVars, blkVars, attnIn,
                   attnQKV, pre_softmax, post_softmax, h_scores, h_soft,
                   params, output>>

\* ViT.__call__, lines 123-131
ViT_Head ==
    /\ Running("ViT:head")
    /\ head' = HeadOf(vit)
    /\ head_in' = FirstRow(enc_x)
    /\ output' = Dense(FirstRow(enc_x),
                       Param("head_kernel", HeadOf(vit).kernel_init,
                             <<vit.embed_dim, vit.num_classes>>, pseed),
                       Param("head_bias", HeadOf(vit).bias_init,
                             <<vit.num_classes>>, pseed),
                       vit.num_classes)
    /\ params' = params \cup {<<"Dense", "kernel">>, <<"Dense", "bias">>}
    /\ trace' = Append(trace, <<"ViT", "Dense">>)
    /\ status' = "returned"
    /\ UNCHANGED <<pc, raised_by>>
    /\ UNCHANGED <<vit, enc, blk, sa, attn, callVars, image, patches,
                   cls_token, seq, encVars, blkVars, attnIn, attnQKV, attnW,
                   drops>>

Next ==
    \/ ViT_Assert
    \/ ViT_PatchEmbed
    \/ ViT_ClsToken
    \/ ViT_CallEncoder
    \/ Encoder_AddPos
    \/ Encoder_Dropout
    \/ Encoder_NextBlock
    \/ Encoder_FinalNorm
    \/ Block_Norm1
    \/ Block_CallSelfAttention
    \/ SelfAttention_Call
    \/ Attn_Assert
    \/ Attn_Project
    \/ Attn_Scores
    \/ Attn_PreMix
    \/ Attn_Softmax
    \/ Attn_PostMix
    \/ Attn_Dropout
    \/ ViT_Head

Spec ==
    Init /\ [][Next]_vars

(* ------------------------------------------------------------------ claims *)
Ended ==
    status # "running"

\* the call ended and no precondition was violated
EndedValid ==
    status \in {"returned", "AttributeError"}

ModuleOps(m) ==
    SelectSeq(trace, LAMBDA e : e[1] = m)

AttnPcs ==
    {"Attn:assert", "Attn:project", "Attn:scores", "Attn:pre",
     "Attn:softmax", "Attn:post", "Attn:dropout", "Attn:values"}

InAttention ==
    attn # NoModule /\ pc \in AttnPcs

\* C1 (as claimed): a SelfAttentionBlock call on a rank-3 (B, L, C) input with
\* C % num_heads = 0 that has ended has returned a tensor of shape
\* (B, L, out_ch), out_ch being C when not configured.
C1_SelfAttentionReturnsShape ==
    (/\ entry = "SelfAttentionBlock"
     /\ Rank(inputs_q) = 3
     /\ LastDim(inputs_q) % sa.num_heads = 0
     /\ Ended)
    => /\ status = "returned"
       /\ output.shape = <<inputs_q.shape[1], inputs_q.shape[2],
                           OrElse(sa.out_ch, LastDim(inputs_q))>>

\* C2 (as claimed): once AttentionBlock is past its attention-weights dropout
\* statement, that dropout has run with the rate of the block's
\* attn_drop_rate field and deterministic = not is_training.
C2_AttnDropoutUsesConfiguredRate ==
    (/\ attn # NoModule
     /\ \/ pc = "Attn:values"
        \/ pc = "Attn:dropout" /\ Ended)
    => \E i \in DOMAIN drops :
          drops[i] = [site |-> "attn_weights",
                      rate |-> attn.attn_drop_rate,
                      deterministic |-> ~is_training]

\* C3: a call whose precondition is violated never gets past the assert of
\* the module that checks it: an AttentionBlock call with an input that is
\* not rank 3, or with a query channel count its num_heads does not divide,
\* stays at its first statement, creates no AttentionBlock parameter, does no
\* AttentionBlock tensor operation and produces no output; a ViT call with
\* embed_dim % num_heads # 0 stays at its assert with no parameter, no
\* tensor operation and no output at all; and every AssertionError is raised
\* at one of these two asserts.
C3_PreconditionAbortsFirst ==
    /\ (/\ InAttention
        /\ \/ Len(inputs_q.shape) # 3
           \/ Len(inputs_kv.shape) # 3
           \/ inputs_q.shape[Len(inputs_q.shape)] % attn.num_heads # 0)
       => /\ pc = "Attn:assert"
          /\ status \in {"running", "AssertionError"}
          /\ status = "AssertionError" => raised_by = "AttentionBlock"
          /\ \A e \in params : e[1] # "AttentionBlock"
          /\ ModuleOps("AttentionBlock") = <<>>
          /\ query = NoTensor /\ key = NoTensor /\ value = NoTensor
          /\ attn_weights = NoTensor
          /\ output = NoTensor
    /\ (entry = "ViT" /\ vit.embed_dim % vit.num_heads # 0)
       => /\ pc = "ViT:assert"
          /\ status \in {"running", "AssertionError"}
          /\ status = "AssertionError" => raised_by = "ViT"
          /\ params = {} /\ trace = <<>>
          /\ patches = NoTensor /\ seq = NoTensor
          /\ output = NoTensor
    /\ status = "AssertionError"
       => /\ pc \in {"Attn:assert", "ViT:assert"}
          /\ output = NoTensor

\* C3 witness: an AttentionBlock call inside an Encoder, on rank-3 inputs
\* whose channel count num_heads does not divide, has raised.
C3_Witness ==
    /\ status = "AssertionError"
    /\ raised_by = "AttentionBlock"
    /\ entry = "Encoder"
    /\ Rank(inputs_q) = 3
    /\ LastDim(inputs_q) % attn.num_heads # 0

\* C4 (as claimed): with is_training = False, a call that violates no
\* precondition and has ended has returned, and no dropout site it ran was
\* active, whatever the rates.
C4_InferenceReturnsDeterministic ==
    (~is_training /\ EndedValid)
    => /\ status = "returned"
       /\ \A i \in DOMAIN drops :
             /\ drops[i].deterministic = ~is_training
             /\ ~DropoutActive(drops[i].rate, drops[i].deterministic)

\* C5 (as claimed): an EncoderBlock call that violates no precondition and
\* has ended has done, in this order, LayerNorm, the first residual add,
\* LayerNorm, FeedForward and the second residual add.
C5_BlockResidualOrder ==
    (blk # NoModule /\ EndedValid)
    => ModuleOps("EncoderBlock") =
          << <<"EncoderBlock", "LayerNorm">>, <<"EncoderBlock", "add">>,
             <<"EncoderBlock", "LayerNorm">>, <<"EncoderBlock", "FFBlock">>,
             <<"EncoderBlock", "add">> >>

\* C6 (as claimed): an Encoder call that violates no precondition and has
\* ended has run the positional add, then the dropout, then num_layers
\* blocks, then the final normalization once.
C6_EncoderStageOrder ==
    (enc # NoModule /\ EndedValid)
    => /\ ModuleOps("Encoder") =
             << <<"Encoder", "AddAbsPosEmbed">>, <<"Encoder", "Dropout">>,
                <<"Encoder", "LayerNorm">> >>
       /\ layer = enc.num_layers

\* C7: once ViT has built its sequence, it is 1 + num_patches long, holds
\* the one class-token vector at index 0 of every batch element and the
\* patch tokens, in their order, at indices 1..num_patches; and the rows
\* given to the classification head are the Encoder's output at index 0.
C7_ClassTokenFirst ==
    /\ seq # NoTensor
       => /\ seq.shape = <<patches.shape[1], 1 + patches.shape[2],
                           vit.embed_dim>>
          /\ \A b \in 1..patches.shape[1] :
                /\ Len(seq.data[b]) = 1 + patches.shape[2]
                /\ seq.data[b][1] =
                       Param("cls", "zeros", <<1, 1, vit.embed_dim>>,
                             pseed)[1][1]
                /\ \A p \in 1..patches.shape[2] :
                       seq.data[b][1 + p] = patches.data[b][p]
    /\ head_in # NoTensor
       => /\ enc_x.shape = seq.shape
          /\ head_in.shape = <<seq.shape[1], vit.embed_dim>>
          /\ \A b \in 1..seq.shape[1] : head_in.data[b] = enc_x.data[b][1]

\* C7 witness: a ViT call on two images of two patches each, with a trained
\* class token, has given rows to the classification head.
C7_Witness ==
    /\ entry = "ViT"
    /\ status = "returned"
    /\ head_in # NoTensor
    /\ pseed = 1
    /\ patches.shape[1] = 2
    /\ patches.shape[2] = 2
    /\ seq.data[2][1] # seq.data[2][2]

\* C8 (as claimed): a ViT call with embed_dim % num_heads = 0 and
\* num_layers >= 1 that has ended has returned logits of shape
\* (B, num_classes), all zero when the head's kernel is at its zero
\* initialization and its bias is zero.
C8_ViTReturnsLogits ==
    (/\ entry = "ViT"
     /\ vit.embed_dim % vit.num_heads = 0
     /\ vit.num_layers >= 1
     /\ Ended)
    => /\ status = "returned"
       /\ output.shape = <<image.shape[1], vit.num_classes>>
       /\ (pseed = 0 /\ vit.bias_init = "zeros")
          => \A b \in 1..image.shape[1], j \in 1..vit.num_classes :
                output.data[b][j] = 0

\* out[h'] = sum over h of in[h] * M[h, h'], on a (B, H, Lq, Lk) tensor
HeadMix(w, m) ==
    [shape |-> w.shape,
     data |-> [b \in 1..w.shape[1] |-> [h2 \in 1..w.shape[2] |->
                [q \in 1..w.shape[3] |-> [k \in 1..w.shape[4] |->
                   SumSeq([h \in 1..w.shape[2] |->
                             (w.data[b][h][q][k] * m[h][h2]) \div One])]]]]]

C10_BiasInitStopsAtEncoder ==
    /\ (vit # NoModule /\ enc # NoModule)
       => /\ enc.bias_init = vit.bias_init
          /\ enc.kernel_init = vit.kernel_init
    /\ (enc # NoModule /\ blk # NoModule)
       => /\ blk.bias_init = "zeros"
          /\ blk.kernel_init = enc.kernel_init
          /\ FFBlockOf(blk).bias_init = "zeros"
          /\ FFBlockOf(blk).kernel_init = enc.kernel_init
    /\ (blk # NoModule /\ sa # NoModule)
       => /\ sa.bias_init = "zeros"
          /\ sa.kernel_init = blk.kernel_init
    /\ (blk # NoModule /\ attn # NoModule)
       => /\ attn.bias_init = "zeros"
          /\ attn.kernel_init = blk.kernel_init
    /\ head # NoModule
       => head.bias_init = vit.bias_init

\* C10 witness: a ViT given bias_init = ones has built, two levels down, an
\* AttentionBlock whose bias_init is zeros.
C10_Witness ==
    /\ entry = "ViT"
    /\ vit.bias_init = "ones"
    /\ enc # NoModule
    /\ enc.bias_init = "ones"
    /\ blk # NoModule
    /\ sa # NoModule
    /\ sa.bias_init = "zeros"
    /\ attn # NoModule
    /\ attn.bias_init = "zeros"

====
